---- MODULE Spec2Model ----
(***************************************************************************)
(* Host-side attachment manager of the userspace CNI plugin for Open       *)
(* vSwitch (cniovs/cniovs.go): AddOnHost, AddOnContainer, DelFromHost,     *)
(* DelFromContainer and their helpers, over the vswitch state (bridges,    *)
(* ports), the socket directory, the Saved-Attachment Store and the Remote *)
(* Config Store.  Every CNI invocation is one process; each action is one  *)
(* call the invocation makes on the shared state, together with the local  *)
(* code that follows it up to the next such call.                          *)
(*                                                                         *)
(* Strings the code indexes or matches (container ids, interface names,    *)
(* socket references, file names, MAC addresses) are sequences of          *)
(* one-character strings; "" is << >>.  Bridge names, network types and    *)
(* interface types are only compared and are TLA+ strings.                 *)
(*                                                                         *)
(* Spec runs the invocations one after the other over every request;       *)
(* SpecIds runs them over identities whose reference strings coincide or   *)
(* extend one another; SpecConc runs two invocations concurrently; SpecMac *)
(* runs generateRandomMacAddress alone.                                    *)
(***************************************************************************)
EXTENDS Integers, Sequences, FiniteSets, TLC

VARIABLES
    bridges,    \* vswitch: names of the bridges that exist
    ports,      \* vswitch: set of [name, bridge, client] vhost-user ports
    dirExists,  \* filesystem: usrspdb.DefaultSocketDir exists
    files,      \* filesystem: names of the files in the socket directory
    saved,      \* Saved-Attachment Store: identity -> OvsSavedData
    remote,     \* Remote Config Store: identities with a RemoteConfigRecord
    calls,      \* the CNI invocations: process -> its locals and position
    started,    \* number of invocations started so far
    lastAdd,    \* history: identity -> what its last successful AddOnHost used
    run,        \* history: the successful host calls completed so far
    macgen      \* generateRandomMacAddress on its own: rand.Read's bytes, result

vars == <<bridges, ports, dirExists, files, saved, remote, calls, started,
          lastAdd, run, macgen>>

----------------------------------------------------------------------------
(* Bounds of the model *)

MaxCalls == 3

\* invocations in a run over the identities that share a reference string or
\* a prefix of one
MaxIdCalls == 4

----------------------------------------------------------------------------
(* Program constants and input pools *)

defaultBridge == "br0"

TruncLen == 12

Procs == {"p1", "p2"}

Rep(c, n) == [i \in 1..n |-> c]

\* container ids: two of 13 characters, one shorter than the 12 the code
\* slices off
idA == Rep("a", 12) \o <<"1">>
idB == Rep("b", 12) \o <<"1">>
idShort == <<"a", "b">>

if1 == <<"e", "1">>

Ident(c, i) == [ContainerID |-> c, IfName |-> i]

Identities ==
    { Ident(idA, if1), Ident(idB, if1), Ident(idShort, if1) }

NetTypes == {"bridge", "interface"}
BridgeNames == {"", "br1"}
IfTypes == {"vhostuser", "dpdkvirtio"}
VhostModes == {"client", "server"}

\* the requests of the model: every network type, bridge name and interface
\* type, with the vhost mode client on "interface" requests and server on
\* "bridge" requests
Requests ==
    { r \in [NetType : NetTypes, BridgeName : BridgeNames, IfType : IfTypes,
             Mode : VhostModes] :
        r.Mode = "client" <=> r.NetType = "interface" }

ContainerIdentities == { Ident(idA, if1) }

\* a second interface of container idA whose name extends if1, and a second
\* container whose id differs from idA after the 12th character only
if10 == <<"e", "1", "0">>
idA2 == Rep("a", 12) \o <<"2">>

IdIdentities == { Ident(idA, if1), Ident(idA, if10), Ident(idA2, if1) }

DefaultRequest ==
    [NetType |-> "bridge", BridgeName |-> "br1", IfType |-> "vhostuser",
     Mode |-> "server"]

RandBufs == { <<253, 171, 205, 239, 1, 35>> }

VswitchMacs == { <<"0","0",":","0","0",":","0","0",":","0","0",":","0","0",":","0","1">> }

----------------------------------------------------------------------------
(* Strings *)

IsPrefix(pre, s) ==
    /\ Len(pre) <= Len(s)
    /\ SubSeq(s, 1, Len(pre)) = pre

\* regexp.MatchString(pattern, s) for a pattern of literal characters and
\* "." (any character) followed by ".*": the pattern is not anchored, so it
\* matches when the literal part occurs anywhere in s.
MatchAt(lit, s, at) ==
    /\ at + Len(lit) - 1 <= Len(s)
    /\ \A k \in 1..Len(lit) : lit[k] = "." \/ lit[k] = s[at + k - 1]

MatchString(lit, s) == \E at \in 1..(Len(s) + 1) : MatchAt(lit, s, at)

HexDigits == <<"0","1","2","3","4","5","6","7","8","9","a","b","c","d","e","f">>

\* fmt "%02x" of one byte
Hex2(b) == <<HexDigits[(b \div 16) + 1], HexDigits[(b % 16) + 1]>>

\* (mutant) b | 0x2 on a byte: the multicast bit is not cleared
LocalUnicast_noClear(b) == IF (b \div 2) % 2 = 1 THEN b ELSE b + 2

\* (b | 0x2) & 0xfe on a byte
LocalUnicast(b) ==
    LET withLocal == IF (b \div 2) % 2 = 1 THEN b ELSE b + 2
    IN  withLocal - (withLocal % 2)

\* generateRandomMacAddress: buf is what rand.Read filled in, readOk whether
\* rand.Read succeeded (AddOnHost runs it with readOk; SpecMac runs it on
\* its own, over every first byte and with the failure of rand.Read).
generateRandomMacAddress(buf, readOk) ==
    IF ~readOk THEN << >>
    ELSE Hex2(LocalUnicast(buf[1])) \o <<":">> \o Hex2(buf[2]) \o <<":">>
         \o Hex2(buf[3]) \o <<":">> \o Hex2(buf[4]) \o <<":">>
         \o Hex2(buf[5]) \o <<":">> \o Hex2(buf[6])

----------------------------------------------------------------------------
(* Local computations of cniovs.go *)

\* AddOnHost, the coercion of NetType / BridgeName
AddNormalize(conf) ==
    IF conf.NetType # "bridge"
    THEN [conf EXCEPT !.NetType = "bridge", !.BridgeName = defaultBridge]
    ELSE conf

\* DelFromHost, the coercion of NetType / BridgeName
DelNormalize(conf) ==
    IF conf.NetType # "bridge"
    THEN [conf EXCEPT !.NetType = "bridge", !.BridgeName = defaultBridge]
    ELSE conf

\* args.ContainerID[:12] panics (slice bounds out of range) on a shorter id
CanSlice(args) == Len(args.ContainerID) >= TruncLen

\* addLocalDeviceVhost: sockRef
sockRef(args) ==
    SubSeq(args.ContainerID, 1, TruncLen) \o <<"-">> \o args.IfName

\* delLocalDeviceVhost: fileBaseName
fileBaseName(args) ==
    SubSeq(args.ContainerID, 1, TruncLen) \o <<"-">> \o args.IfName

\* delLocalDeviceVhost: does the loop remove fileName
fileMatches(args, fileName) == MatchString(fileBaseName(args), fileName)

\* addLocalDeviceVhost: clientMode
clientMode(conf) == conf.Mode = "Mode"

\* addLocalDeviceVhost / delLocalDeviceVhost: bridgeName
vhostBridgeName(conf) ==
    IF conf.NetType = "bridge" THEN conf.BridgeName ELSE ""

EmptyData == [Vhostname |-> << >>, IfMac |-> << >>, VhostMac |-> << >>]

\* (mutant) the port name is recorded only when the MAC query succeeded
vhostData_nameInsideIf(data, vhostName, macOk, vhostPortMac, ifMac) ==
    [data EXCEPT !.VhostMac = IF macOk THEN vhostPortMac ELSE @,
                 !.Vhostname = IF macOk THEN vhostName ELSE @,
                 !.IfMac = ifMac]

\* addLocalDeviceVhost after createVhostPort succeeded: macOk is whether
\* getVhostPortMac succeeded, vhostPortMac what it returned.
vhostData(data, vhostName, macOk, vhostPortMac, ifMac) ==
    [data EXCEPT !.VhostMac = IF macOk THEN vhostPortMac ELSE @,
                 !.Vhostname = vhostName,
                 !.IfMac = ifMac]

\* addLocalDeviceVhost: the error it returns after createVhostPort succeeded
\* (the inner err of the MAC query is a different variable)
vhostAddErr(macOk) == "ok"

\* delLocalDeviceVhost: the error it returns when deleteVhostPort failed
vhostDelErr(portOk) == "ok"

\* (mutant) DelFromContainer returns what CleanupRemoteConfig met
delFromContainerErr_propagate(cleanupOk) ==
    IF cleanupOk THEN "ok" ELSE "FilesystemError"

\* DelFromContainer: its return value, whatever CleanupRemoteConfig did
delFromContainerErr(cleanupOk) == "ok"

\* (mutant) LoadConfig fills a variable that shadows DelFromHost's data
loadInto_shadow(c, record) == c

\* DelFromHost: LoadConfig fills DelFromHost's data, which the later steps
\* read
loadInto(c, record) == [c EXCEPT !.data = record]

----------------------------------------------------------------------------
(* The collaborators: vswitch control, stores *)

findBridge(name) == name \in bridges

createBridge(name) == bridges \cup {name}

deleteBridge(name) == bridges \ {name}

doesBridgeContainInterfaces(name) == \E pt \in ports : pt.bridge = name

\* add-port fails when the port name is taken or the bridge is missing
canCreateVhostPort(name, bridgeName) ==
    /\ \A pt \in ports : pt.name # name
    /\ bridgeName = "" \/ bridgeName \in bridges

createVhostPort(name, client, bridgeName) ==
    ports \cup {[name |-> name, bridge |-> bridgeName, client |-> client]}

\* the socket of a server-mode port is created under the socket directory
vhostSocketFiles(name, client) == IF client THEN {} ELSE {name}

\* --if-exists del-port: removes the port from the bridge if present
deleteVhostPort(name, bridgeName) ==
    {pt \in ports : ~(pt.name = name /\ pt.bridge = bridgeName)}

HasConfig(args) == args \in DOMAIN saved

SaveConfig(args, data) ==
    [k \in (DOMAIN saved) \cup {args} |-> IF k = args THEN data ELSE saved[k]]

\* LoadConfig returns the record and erases it from the store
LoadConfig(args) == saved[args]

EraseConfig(args) == [k \in (DOMAIN saved) \ {args} |-> saved[k]]

----------------------------------------------------------------------------
(* State of one invocation *)

NoPre ==
    [bridges |-> {}, ports |-> {}, dir |-> FALSE, files |-> {},
     records |-> {}, remote |-> {}]

NoExpect == [data |-> EmptyData, bridge |-> "none"]

IdleCall ==
    [op |-> "idle", pc |-> "idle", req |-> DefaultRequest,
     conf |-> DefaultRequest, args |-> Ident(<< >>, << >>),
     data |-> EmptyData, listing |-> {}, todo |-> {}, numDeleted |-> 0,
     result |-> "none",
     \* history of the invocation, read by the properties only
     failed |-> "none", pre |-> NoPre, expect |-> NoExpect, removed |-> {}]

AllIdle == \A p \in Procs : calls[p].op = "idle"

Finish(c, res) == [c EXCEPT !.pc = "done", !.result = res]

\* failed keeps the first step of the invocation that failed
Fail(c, step, res) ==
    [c EXCEPT !.pc = "done", !.result = res,
              !.failed = IF @ = "none" THEN step ELSE @]

Snapshot ==
    [bridges |-> bridges, ports |-> ports, dir |-> dirExists,
     files |-> files, records |-> DOMAIN saved, remote |-> remote]

FirstPc(op) ==
    CASE op = "AddOnHost" -> "a_find"
      [] op = "DelFromHost" -> "d_load"
      [] op = "AddOnContainer" -> "c_save"
      [] op = "DelFromContainer" -> "c_cleanup"

NewCall(op, req, args) ==
    [IdleCall EXCEPT !.op = op, !.pc = FirstPc(op), !.req = req,
                     !.conf = req, !.args = args, !.pre = Snapshot]

NoRun == [phase |-> "off", adds |-> {}, dels |-> {}]

NoMac == [buf |-> << >>, readOk |-> TRUE, out |-> <<"none">>]

Init ==
    /\ bridges = {}
    /\ ports = {}
    /\ dirExists = FALSE
    /\ files = {}
    /\ saved = << >>
    /\ remote = {}
    /\ calls = [p \in Procs |-> IdleCall]
    /\ started = 0
    /\ lastAdd = << >>
    /\ run = [phase |-> "adds", adds |-> {}, dels |-> {}]
    /\ macgen = NoMac

----------------------------------------------------------------------------
(* The CNI skeleton starts one invocation at a time *)

StartBounded(p, ops, reqs, ids, max) ==
    /\ started < max
    /\ \E q \in Procs : calls[q].op = "idle"
    /\ p = CHOOSE q \in Procs : calls[q].op = "idle"
    /\ \E op \in ops, req \in reqs, args \in ids :
           calls' = [calls EXCEPT ![p] = NewCall(op, req, args)]
    /\ started' = started + 1
    /\ UNCHANGED <<bridges, ports, dirExists, files, saved, remote, lastAdd,
                   run, macgen>>

StartCall(p, ops, reqs, ids) == StartBounded(p, ops, reqs, ids, MaxCalls)

StartHost(p) ==
    /\ AllIdle
    /\ StartCall(p, {"AddOnHost", "DelFromHost"}, Requests, Identities)

StartContainer(p) ==
    /\ AllIdle
    /\ StartCall(p, {"AddOnContainer", "DelFromContainer"}, {DefaultRequest},
                 ContainerIdentities)

----------------------------------------------------------------------------
(* AddOnHost *)

\* AddOnHost from the return of addLocalNetworkBridge to the first call of
\* addLocalDeviceVhost: the IfType test and the slice of the container id.
addAfterBridge(c) ==
    IF c.conf.IfType # "vhostuser"
    THEN Fail(c, "iftype", "UnsupportedInterfaceType")
    ELSE IF ~CanSlice(c.args)
    THEN Fail(c, "slice", "panic")
    ELSE [c EXCEPT !.pc = "a_stat"]

\* (mutant) the error of createVhostPort is dropped like the MAC query's
addAfterPortFail_dropErr(c) ==
    [c EXCEPT !.pc = "a_mac", !.failed = "createVhostPort"]

\* addLocalDeviceVhost when createVhostPort failed: the error is returned,
\* and AddOnHost returns it before SaveConfig.
addAfterPortFail(c) == Fail(c, "createVhostPort", "VswitchOperationFailed")

\* AddOnHost entry, the coercion, and addLocalNetworkBridge's findBridge
AddOnHost_findBridge(p) ==
    /\ calls[p].pc = "a_find"
    /\ LET c == [calls[p] EXCEPT !.conf = AddNormalize(@)]
       IN  calls' = [calls EXCEPT ![p] =
               IF c.conf.NetType = "bridge"
                  /\ ~findBridge(c.conf.BridgeName)
               THEN [c EXCEPT !.pc = "a_createbr"]
               ELSE addAfterBridge(c)]
    /\ UNCHANGED <<bridges, ports, dirExists, files, saved, remote, started,
                   lastAdd, run, macgen>>

\* addLocalNetworkBridge's createBridge
AddOnHost_createBridge(p) ==
    /\ calls[p].pc = "a_createbr"
    /\ \E ok \in BOOLEAN :
         IF ok
         THEN /\ bridges' = createBridge(calls[p].conf.BridgeName)
              /\ calls' = [calls EXCEPT ![p] = addAfterBridge(@)]
         ELSE /\ bridges' = bridges
              /\ calls' = [calls EXCEPT ![p] =
                     Fail(@, "createBridge", "VswitchOperationFailed")]
    /\ UNCHANGED <<ports, dirExists, files, saved, remote, started, lastAdd,
                   run, macgen>>

\* addLocalDeviceVhost's os.Stat(sockDir)
AddOnHost_stat(p) ==
    /\ calls[p].pc = "a_stat"
    /\ \E ok \in BOOLEAN :
         calls' = [calls EXCEPT ![p] =
             IF ~ok THEN Fail(@, "stat", "FilesystemError")
             ELSE IF dirExists THEN [@ EXCEPT !.pc = "a_port"]
             ELSE [@ EXCEPT !.pc = "a_mkdir"]]
    /\ UNCHANGED <<bridges, ports, dirExists, files, saved, remote, started,
                   lastAdd, run, macgen>>

\* addLocalDeviceVhost's os.MkdirAll(sockDir)
AddOnHost_mkdir(p) ==
    /\ calls[p].pc = "a_mkdir"
    /\ \E ok \in BOOLEAN :
         IF ok
         THEN /\ dirExists' = TRUE
              /\ calls' = [calls EXCEPT ![p].pc = "a_port"]
         ELSE /\ dirExists' = dirExists
              /\ calls' = [calls EXCEPT ![p] =
                     Fail(@, "mkdir", "FilesystemError")]
    /\ UNCHANGED <<bridges, ports, files, saved, remote, started, lastAdd,
                   run, macgen>>

\* addLocalDeviceVhost's createVhostPort
AddOnHost_createVhostPort(p) ==
    /\ calls[p].pc = "a_port"
    /\ LET c == calls[p]
           name == sockRef(c.args)
           client == clientMode(c.conf)
           bridgeName == vhostBridgeName(c.conf)
       IN  \E ok \in BOOLEAN :
             IF ok /\ dirExists /\ canCreateVhostPort(name, bridgeName)
             THEN /\ ports' = createVhostPort(name, client, bridgeName)
                  /\ files' = files \cup vhostSocketFiles(name, client)
                  /\ calls' = [calls EXCEPT ![p].pc = "a_mac"]
             ELSE /\ UNCHANGED <<ports, files>>
                  /\ calls' = [calls EXCEPT ![p] = addAfterPortFail(c)]
    /\ UNCHANGED <<bridges, dirExists, saved, remote, started, lastAdd, run,
                   macgen>>

\* addLocalDeviceVhost's getVhostPortMac and the filling of data
AddOnHost_getVhostPortMac(p) ==
    /\ calls[p].pc = "a_mac"
    /\ \E macOk \in BOOLEAN, mac \in VswitchMacs, buf \in RandBufs :
         LET c == calls[p]
             d == vhostData(c.data, sockRef(c.args), macOk, mac,
                            generateRandomMacAddress(buf, TRUE))
             err == vhostAddErr(macOk)
         IN  calls' = [calls EXCEPT ![p] =
                 IF err = "ok"
                 THEN [c EXCEPT !.data = d, !.pc = "a_save",
                                !.failed = IF macOk THEN "none"
                                           ELSE "getVhostPortMac"]
                 ELSE Fail([c EXCEPT !.data = d], "getVhostPortMac", err)]
    /\ UNCHANGED <<bridges, ports, dirExists, files, saved, remote, started,
                   lastAdd, run, macgen>>

\* AddOnHost's ovsdb.SaveConfig and return
AddOnHost_SaveConfig(p) ==
    /\ calls[p].pc = "a_save"
    /\ LET c == calls[p]
       IN  \E ok \in BOOLEAN :
             IF ok
             THEN /\ saved' = SaveConfig(c.args, c.data)
                  /\ lastAdd' =
                       [k \in (DOMAIN lastAdd) \cup {c.args} |->
                           IF k = c.args
                           THEN [data |-> c.data,
                                 bridge |-> vhostBridgeName(c.conf)]
                           ELSE lastAdd[k]]
                  /\ calls' = [calls EXCEPT ![p] = Finish(@, "ok")]
             ELSE /\ UNCHANGED <<saved, lastAdd>>
                  /\ calls' = [calls EXCEPT ![p] =
                         Fail(@, "SaveConfig", "FilesystemError")]
    /\ UNCHANGED <<bridges, ports, dirExists, files, remote, started, run,
                   macgen>>

----------------------------------------------------------------------------
(* DelFromHost *)

\* DelFromHost's "Delete Bridge if empty" test of NetType
delBridgeStage(c) ==
    IF c.conf.NetType = "bridge"
    THEN [c EXCEPT !.pc = "d_brq"]
    ELSE Finish(c, "ok")

\* (mutant) DelFromHost goes on although LoadConfig returned an error
delAfterLoad_ignoreErr(c, loadErr) ==
    LET n == [c EXCEPT !.conf = DelNormalize(@)]
    IN  IF n.conf.IfType = "vhostuser"
        THEN [n EXCEPT !.pc = "d_port"]
        ELSE Fail(n, "iftype", "UnsupportedInterfaceType")

\* DelFromHost from the return of LoadConfig to the call of deleteVhostPort:
\* the error test, the coercion, the IfType test.
delAfterLoad(c, loadErr) ==
    IF loadErr # "ok"
    THEN Fail(c, "LoadConfig", loadErr)
    ELSE LET n == [c EXCEPT !.conf = DelNormalize(@)]
         IN  IF n.conf.IfType = "vhostuser"
             THEN [n EXCEPT !.pc = "d_port"]
             ELSE Fail(n, "iftype", "UnsupportedInterfaceType")

\* delLocalDeviceVhost when deleteVhostPort failed: the error is dropped
\* and DelFromHost goes on to the bridge.
delAfterPortFail(c) ==
    LET f == [c EXCEPT !.failed = "deleteVhostPort"]
    IN  IF vhostDelErr(FALSE) = "ok"
        THEN delBridgeStage(f)
        ELSE Fail(f, "deleteVhostPort", vhostDelErr(FALSE))

\* delLocalDeviceVhost after the loop over the listing
delAfterLoop(c) ==
    IF c.numDeleted = Cardinality(c.listing)
    THEN [c EXCEPT !.pc = "d_rmdir"]
    ELSE delBridgeStage(c)

\* delLocalDeviceVhost: the loop runs to its next os.Remove, or to its end
delLoop(c) == IF c.todo = {} THEN delAfterLoop(c) ELSE [c EXCEPT !.pc = "d_rm"]

\* DelFromHost's ovsdb.LoadConfig
DelFromHost_LoadConfig(p) ==
    /\ calls[p].pc = "d_load"
    /\ LET c == calls[p]
       IN  \E ok \in BOOLEAN :
             IF ~HasConfig(c.args)
             THEN /\ UNCHANGED <<saved, lastAdd>>
                  /\ calls' = [calls EXCEPT ![p] =
                         delAfterLoad(c, "ConfigNotFound")]
             ELSE IF ~ok
             THEN /\ UNCHANGED <<saved, lastAdd>>
                  /\ calls' = [calls EXCEPT ![p] =
                         delAfterLoad(c, "FilesystemError")]
             ELSE /\ saved' = EraseConfig(c.args)
                  /\ lastAdd' =
                       [k \in (DOMAIN lastAdd) \ {c.args} |-> lastAdd[k]]
                  /\ calls' = [calls EXCEPT ![p] =
                         delAfterLoad(
                             [loadInto(c, LoadConfig(c.args)) EXCEPT
                                 !.expect = lastAdd[c.args]],
                             "ok")]
    /\ UNCHANGED <<bridges, ports, dirExists, files, remote, started, run,
                   macgen>>

\* delLocalDeviceVhost's deleteVhostPort
DelFromHost_deleteVhostPort(p) ==
    /\ calls[p].pc = "d_port"
    /\ LET c == calls[p]
       IN  \E ok \in BOOLEAN :
             IF ok
             THEN /\ ports' = deleteVhostPort(c.data.Vhostname,
                                              vhostBridgeName(c.conf))
                  /\ calls' = [calls EXCEPT ![p].pc = "d_open"]
             ELSE /\ ports' = ports
                  /\ calls' = [calls EXCEPT ![p] = delAfterPortFail(c)]
    /\ UNCHANGED <<bridges, dirExists, files, saved, remote, started, lastAdd,
                   run, macgen>>

\* delLocalDeviceVhost's os.Open(path), then the slice of the container id.
\* The filesystem calls fail with NotExist (ENOENT) or NotEmpty (ENOTEMPTY)
\* when the state makes them fail, with FilesystemError on any other fault.
DelFromHost_open(p) ==
    /\ calls[p].pc = "d_open"
    /\ \E ok \in BOOLEAN :
         calls' = [calls EXCEPT ![p] =
             IF ~dirExists THEN Fail(@, "open", "NotExist")
             ELSE IF ~ok THEN Fail(@, "open", "FilesystemError")
             ELSE IF ~CanSlice(@.args) THEN Fail(@, "slice", "panic")
             ELSE [@ EXCEPT !.pc = "d_list"]]
    /\ UNCHANGED <<bridges, ports, dirExists, files, saved, remote, started,
                   lastAdd, run, macgen>>

\* delLocalDeviceVhost's folder.Readdirnames(0)
DelFromHost_Readdirnames(p) ==
    /\ calls[p].pc = "d_list"
    /\ LET c == calls[p]
       IN  \E ok \in BOOLEAN :
             calls' = [calls EXCEPT ![p] =
                 IF ~ok THEN Fail(c, "Readdirnames", "FilesystemError")
                 ELSE delLoop([c EXCEPT
                          !.listing = files,
                          !.todo = {f \in files : fileMatches(c.args, f)}])]
    /\ UNCHANGED <<bridges, ports, dirExists, files, saved, remote, started,
                   lastAdd, run, macgen>>

\* delLocalDeviceVhost's os.Remove(file) of the next matching file
DelFromHost_removeFile(p) ==
    /\ calls[p].pc = "d_rm"
    /\ LET c == calls[p]
       IN  \E f \in c.todo, ok \in BOOLEAN :
             IF ok /\ f \in files
             THEN /\ files' = files \ {f}
                  /\ calls' = [calls EXCEPT ![p] =
                         delLoop([c EXCEPT !.todo = @ \ {f},
                                           !.numDeleted = @ + 1,
                                           !.removed = @ \cup {f}])]
             ELSE /\ files' = files
                  /\ calls' = [calls EXCEPT ![p] =
                         Fail(c, "removeFile",
                              IF f \notin files THEN "NotExist"
                              ELSE "FilesystemError")]
    /\ UNCHANGED <<bridges, ports, dirExists, saved, remote, started, lastAdd,
                   run, macgen>>

\* delLocalDeviceVhost's os.Remove(path) of the socket directory
DelFromHost_removeDir(p) ==
    /\ calls[p].pc = "d_rmdir"
    /\ \E ok \in BOOLEAN :
         IF ok /\ dirExists /\ files = {}
         THEN /\ dirExists' = FALSE
              /\ calls' = [calls EXCEPT ![p] = delBridgeStage(@)]
         ELSE /\ dirExists' = dirExists
              /\ calls' = [calls EXCEPT ![p] =
                     Fail(@, "removeDir",
                          IF ~dirExists THEN "NotExist"
                          ELSE IF files # {} THEN "NotEmpty"
                          ELSE "FilesystemError")]
    /\ UNCHANGED <<bridges, ports, files, saved, remote, started, lastAdd,
                   run, macgen>>

\* delLocalNetworkBridge's doesBridgeContainInterfaces
DelFromHost_doesBridgeContainInterfaces(p) ==
    /\ calls[p].pc = "d_brq"
    /\ calls' = [calls EXCEPT ![p] =
           IF doesBridgeContainInterfaces(@.conf.BridgeName)
           THEN Finish(@, "ok")
           ELSE [@ EXCEPT !.pc = "d_delbr"]]
    /\ UNCHANGED <<bridges, ports, dirExists, files, saved, remote, started,
                   lastAdd, run, macgen>>

\* delLocalNetworkBridge's deleteBridge
DelFromHost_deleteBridge(p) ==
    /\ calls[p].pc = "d_delbr"
    /\ \E ok \in BOOLEAN :
         IF ok
         THEN /\ bridges' = deleteBridge(calls[p].conf.BridgeName)
              /\ calls' = [calls EXCEPT ![p] = Finish(@, "ok")]
         ELSE /\ bridges' = bridges
              /\ calls' = [calls EXCEPT ![p] =
                     Fail(@, "deleteBridge", "VswitchOperationFailed")]
    /\ UNCHANGED <<ports, dirExists, files, saved, remote, started, lastAdd,
                   run, macgen>>

----------------------------------------------------------------------------
(* AddOnContainer, DelFromContainer *)

AddOnContainer(p) ==
    /\ calls[p].pc = "c_save"
    /\ \E ok \in BOOLEAN :
         IF ok
         THEN /\ remote' = remote \cup {calls[p].args}
              /\ calls' = [calls EXCEPT ![p] = Finish(@, "ok")]
         ELSE /\ remote' = remote
              /\ calls' = [calls EXCEPT ![p] =
                     Fail(@, "SaveRemoteConfig", "FilesystemError")]
    /\ UNCHANGED <<bridges, ports, dirExists, files, saved, started, lastAdd,
                   run, macgen>>

DelFromContainer(p) ==
    /\ calls[p].pc = "c_cleanup"
    /\ \E ok \in BOOLEAN :
         /\ remote' = IF ok THEN remote \ {calls[p].args} ELSE remote
         /\ calls' = [calls EXCEPT ![p] =
                IF delFromContainerErr(ok) = "ok"
                THEN [Finish(@, "ok") EXCEPT
                         !.failed = IF ok THEN "none" ELSE "CleanupRemoteConfig"]
                ELSE Fail(@, "CleanupRemoteConfig", delFromContainerErr(ok))]
    /\ UNCHANGED <<bridges, ports, dirExists, files, saved, started, lastAdd,
                   run, macgen>>

----------------------------------------------------------------------------
(* The invocation ends; the socket directory's other users *)

RunIds(set) == {e.id : e \in set}

RunAfter(c) ==
    CASE c.op = "AddOnHost" ->
           IF /\ c.result = "ok"
              /\ run.phase = "adds"
              /\ c.args \notin RunIds(run.adds)
           THEN [run EXCEPT !.adds = @ \cup
                    {[id |-> c.args, bridge |-> vhostBridgeName(c.conf),
                      clean |-> /\ c.pre.bridges = {}
                                /\ c.pre.ports = {}
                                /\ c.pre.files = {}
                                /\ c.pre.records = {}]}]
           ELSE NoRun
      [] c.op = "DelFromHost" ->
           IF /\ c.result = "ok"
              /\ run.phase \in {"adds", "dels"}
              /\ c.args \in RunIds(run.adds)
              /\ c.args \notin RunIds(run.dels)
           THEN [run EXCEPT !.phase = "dels", !.dels = @ \cup
                    {[id |-> c.args, bridge |-> vhostBridgeName(c.conf)]}]
           ELSE NoRun
      [] OTHER -> run

Return(p) ==
    /\ calls[p].pc = "done"
    /\ run' = RunAfter(calls[p])
    /\ calls' = [calls EXCEPT ![p] = IdleCall]
    /\ UNCHANGED <<bridges, ports, dirExists, files, saved, remote, started,
                   lastAdd, macgen>>

EnvFiles ==
    { sockRef(Ident(idA, if1)) \o <<".", "s">>,
      <<"x">> \o sockRef(Ident(idA, if1)) }

\* what other users of the socket directory left in it before the first
\* invocation
EnvCreateFile ==
    /\ started = 0
    /\ \E f \in EnvFiles \ files :
         /\ files' = files \cup {f}
         /\ dirExists' = TRUE
    /\ UNCHANGED <<bridges, ports, saved, remote, calls, started, lastAdd,
                   run, macgen>>

----------------------------------------------------------------------------

Next ==
    \/ \E p \in Procs : StartHost(p)
    \/ \E p \in Procs : StartContainer(p)
    \/ \E p \in Procs : AddOnHost_findBridge(p)
    \/ \E p \in Procs : AddOnHost_createBridge(p)
    \/ \E p \in Procs : AddOnHost_stat(p)
    \/ \E p \in Procs : AddOnHost_mkdir(p)
    \/ \E p \in Procs : AddOnHost_createVhostPort(p)
    \/ \E p \in Procs : AddOnHost_getVhostPortMac(p)
    \/ \E p \in Procs : AddOnHost_SaveConfig(p)
    \/ \E p \in Procs : DelFromHost_LoadConfig(p)
    \/ \E p \in Procs : DelFromHost_deleteVhostPort(p)
    \/ \E p \in Procs : DelFromHost_open(p)
    \/ \E p \in Procs : DelFromHost_Readdirnames(p)
    \/ \E p \in Procs : DelFromHost_removeFile(p)
    \/ \E p \in Procs : DelFromHost_removeDir(p)
    \/ \E p \in Procs : DelFromHost_doesBridgeContainInterfaces(p)
    \/ \E p \in Procs : DelFromHost_deleteBridge(p)
    \/ \E p \in Procs : AddOnContainer(p)
    \/ \E p \in Procs : DelFromContainer(p)
    \/ \E p \in Procs : Return(p)
    \/ EnvCreateFile

Spec == Init /\ [][Next]_vars

----------------------------------------------------------------------------
(* Sequential host invocations over IdIdentities, one request *)

StartIds(p) ==
    /\ AllIdle
    /\ StartBounded(p, {"AddOnHost", "DelFromHost"}, {DefaultRequest},
                    IdIdentities, MaxIdCalls)

HostStep(p) ==
    \/ AddOnHost_findBridge(p)
    \/ AddOnHost_createBridge(p)
    \/ AddOnHost_stat(p)
    \/ AddOnHost_mkdir(p)
    \/ AddOnHost_createVhostPort(p)
    \/ AddOnHost_getVhostPortMac(p)
    \/ AddOnHost_SaveConfig(p)
    \/ DelFromHost_LoadConfig(p)
    \/ DelFromHost_deleteVhostPort(p)
    \/ DelFromHost_open(p)
    \/ DelFromHost_Readdirnames(p)
    \/ DelFromHost_removeFile(p)
    \/ DelFromHost_removeDir(p)
    \/ DelFromHost_doesBridgeContainInterfaces(p)
    \/ DelFromHost_deleteBridge(p)
    \/ Return(p)

NextIds ==
    \/ \E p \in Procs : StartIds(p)
    \/ \E p \in Procs : HostStep(p)

SpecIds == Init /\ [][NextIds]_vars

----------------------------------------------------------------------------
(* generateRandomMacAddress over every first byte rand.Read can produce *)

MacTails == { <<171, 205, 239, 1, 35>>, <<0, 255, 16, 15, 128>> }

MacBufs == { <<b>> \o t : b \in 0..255, t \in MacTails }

InitMac ==
    /\ bridges = {}
    /\ ports = {}
    /\ dirExists = FALSE
    /\ files = {}
    /\ saved = << >>
    /\ remote = {}
    /\ calls = [p \in Procs |-> IdleCall]
    /\ started = 0
    /\ lastAdd = << >>
    /\ run = NoRun
    /\ macgen \in { [NoMac EXCEPT !.buf = b] : b \in MacBufs }

\* one run of generateRandomMacAddress: rand.Read succeeds or fails
MacGenerate ==
    /\ macgen.out = NoMac.out
    /\ \E readOk \in BOOLEAN :
         macgen' = [macgen EXCEPT
                       !.readOk = readOk,
                       !.out = generateRandomMacAddress(macgen.buf, readOk)]
    /\ UNCHANGED <<bridges, ports, dirExists, files, saved, remote, calls,
                   started, lastAdd, run>>

NextMac == MacGenerate

SpecMac == InitMac /\ [][NextMac]_vars

----------------------------------------------------------------------------
(* Concurrent host invocations: the CNI skeleton runs one process per
   invocation, at most one in flight per identity *)

ConcIdentities == { Ident(idA, if1), Ident(idB, if1) }

InFlight == { calls[q].args : q \in Procs }

StartConc(p) ==
    StartBounded(p, {"AddOnHost", "DelFromHost"}, {DefaultRequest},
                 ConcIdentities \ InFlight, MaxCalls)

NextConc ==
    \/ \E p \in Procs : StartConc(p)
    \/ \E p \in Procs : HostStep(p)

SpecConc == Init /\ [][NextConc]_vars

----------------------------------------------------------------------------
(* Properties *)

Done(p, op) == calls[p].op = op /\ calls[p].pc = "done"

\* a DelFromHost that loaded its record (it is past the coercion too)
Loaded(p) == calls[p].op = "DelFromHost" /\ calls[p].expect.bridge # "none"

FilesOf(args, set) == {f \in set : IsPrefix(sockRef(args), f)}

\* C1: from a state with no bridge, port, socket file or saved record, a
\* successful AddOnHost for an identity followed by a successful DelFromHost
\* for the same identity leaves no bridge, no port, no socket file of the
\* attachment and no saved record of the identity.
C1_AddThenDelLeavesNothing ==
    \A a \in run.adds :
        ( /\ AllIdle
          /\ run.phase = "dels"
          /\ a.clean
          /\ run.adds = {a}
          /\ RunIds(run.dels) = {a.id} )
        => /\ bridges = {}
           /\ ports = {}
           /\ FilesOf(a.id, files) = {}
           /\ ~HasConfig(a.id)

\* C2: in a sequential run of successful AddOnHost calls followed by
\* successful DelFromHost calls, for distinct identities and one bridge name,
\* after each completed call the bridge exists iff more Adds than Deletes
\* have completed.
C2_BridgeIffAddsExceedDels ==
    \A a \in run.adds :
        ( /\ AllIdle
          /\ run.phase # "off"
          /\ \A e \in run.adds \cup run.dels : e.bridge = a.bridge )
        => ( a.bridge \in bridges
             <=> Cardinality(run.adds) > Cardinality(run.dels) )

\* C3: DelFromHost for an identity without a saved record returns
\* ConfigNotFound right after the load and changes no bridge, port, socket
\* file or socket directory.
C3_DelWithoutRecord ==
    \A p \in Procs :
        ( /\ calls[p].op = "DelFromHost"
          /\ calls[p].pc # "d_load"
          /\ calls[p].args \notin calls[p].pre.records )
        => /\ calls[p].pc = "done"
           /\ calls[p].result = "ConfigNotFound"
           /\ bridges = calls[p].pre.bridges
           /\ ports = calls[p].pre.ports
           /\ files = calls[p].pre.files
           /\ dirExists = calls[p].pre.dir

\* C3 witness: a Delete without a record has returned while a bridge, a port
\* and socket files of another attachment exist
C3_Witness ==
    \E p \in Procs :
        /\ Done(p, "DelFromHost")
        /\ calls[p].args \notin calls[p].pre.records
        /\ calls[p].result = "ConfigNotFound"
        /\ bridges # {} /\ ports # {} /\ files # {}

\* C4: AddOnHost with an interfaceType other than "vhostuser" (and no
\* vswitch call of it failing) fails with UnsupportedInterfaceType and
\* creates no bridge, no port and no saved record.
C4_UnsupportedCreatesNothing ==
    \A p \in Procs :
        ( /\ Done(p, "AddOnHost")
          /\ calls[p].req.IfType # "vhostuser"
          /\ calls[p].failed \in {"none", "iftype"} )
        => /\ calls[p].result = "UnsupportedInterfaceType"
           /\ bridges = calls[p].pre.bridges
           /\ ports = calls[p].pre.ports
           /\ DOMAIN saved = calls[p].pre.records

\* C5: a successful DelFromHost (none of its steps failed) removes exactly
\* the files of the socket directory whose name starts with the reference
\* string of its identity.
C5_RemovesExactlyPrefixed ==
    \A p \in Procs :
        ( /\ Done(p, "DelFromHost")
          /\ calls[p].result = "ok"
          /\ calls[p].failed = "none" )
        => files = calls[p].pre.files \ FilesOf(calls[p].args, calls[p].pre.files)

\* C6: the bridge name DelFromHost uses to delete the port and release the
\* bridge is the bridge name the AddOnHost of the identity used.
C6_DelUsesAddBridge ==
    \A p \in Procs :
        Loaded(p) => vhostBridgeName(calls[p].conf) = calls[p].expect.bridge

\* C7: AddOnHost and DelFromHost apply the same coercion, and after it
\* networkType is "bridge" and bridgeName is "br0" whenever the request's
\* networkType is not "bridge" or its bridgeName is unset.
C7_Normalization ==
    /\ \A r \in Requests : AddNormalize(r) = DelNormalize(r)
    /\ \A p \in Procs :
         ( \/ calls[p].op = "AddOnHost" /\ calls[p].pc # "a_find"
           \/ Loaded(p) )
         => /\ calls[p].conf.NetType = "bridge"
            /\ ( calls[p].req.NetType # "bridge"
                 \/ calls[p].req.BridgeName = "" )
               => calls[p].conf.BridgeName = defaultBridge

C9_DelFromContainerSucceeds ==
    \A p \in Procs : Done(p, "DelFromContainer") => calls[p].result = "ok"

\* C9 witness: DelFromContainer has returned for an identity without a
\* RemoteConfigRecord, the cleanup having failed
C9_Witness ==
    \E p \in Procs :
        /\ Done(p, "DelFromContainer")
        /\ calls[p].args \notin calls[p].pre.remote
        /\ calls[p].failed = "CleanupRemoteConfig"

\* C10: when a step of DelFromHost fails, DelFromHost returns the error at
\* once and performs no later step.
C10_FailedStepReturned ==
    \A p \in Procs :
        ( calls[p].op = "DelFromHost" /\ calls[p].failed # "none" )
        => calls[p].pc = "done" /\ calls[p].result # "ok"

\* C11: when a vswitch call of AddOnHost (bridge create, port create,
\* port-MAC query) or the save fails, AddOnHost performs no later step and
\* returns the error, and the store holds no record written by that call.
C11_AddAbortsOnFirstError ==
    \A p \in Procs :
        ( /\ calls[p].op = "AddOnHost"
          /\ calls[p].failed \in {"createBridge", "createVhostPort",
                                  "getVhostPortMac", "SaveConfig"} )
        => /\ calls[p].pc = "done"
           /\ calls[p].result # "ok"
           /\ DOMAIN saved = calls[p].pre.records

\* C12: DelFromHost for an identity that has a saved record does not fail
\* because the port, the socket files, the socket directory or the bridge
\* are already absent.
C12_DelToleratesAbsent ==
    \A p \in Procs :
        ( /\ Done(p, "DelFromHost")
          /\ calls[p].args \in calls[p].pre.records )
        => calls[p].result # "NotExist"

\* C13: when an AddOnHost for X and a DelFromHost for another identity Y
\* (with a saved record) on the same bridge name have both run to their
\* return, no step of either having failed, both return success, the bridge
\* exists and X's port is on it.
C13_ConcurrentAddDelKeepBridge ==
    \A p, q \in Procs :
        ( /\ Done(p, "AddOnHost")
          /\ Done(q, "DelFromHost")
          /\ calls[q].args \in calls[q].pre.records
          /\ calls[p].conf.BridgeName = calls[q].conf.BridgeName
          /\ calls[p].failed = "none"
          /\ calls[q].failed = "none" )
        => /\ calls[p].result = "ok"
           /\ calls[q].result = "ok"
           /\ calls[p].conf.BridgeName \in bridges
           /\ \E pt \in ports : /\ pt.name = sockRef(calls[p].args)
                                /\ pt.bridge = calls[p].conf.BridgeName

C15_PortModeFollowsRequest ==
    \A p \in Procs :
        calls[p].op = "AddOnHost"
        => \A pt \in ports \ calls[p].pre.ports :
               pt.client <=> calls[p].req.Mode = "client"

\* C16: while an AddOnHost runs, the store changes only in the step that
\* ends the call with success; that step adds the record of the call's
\* identity, whose Vhostname is the name of the port the call created; the
\* step that ends an AddOnHost with an error leaves the store as it is.
C16_SavedOnceAtSuccessfulEnd ==
    [][ \A p \in Procs :
          calls[p].op = "AddOnHost"
          => /\ saved' # saved
                => /\ calls[p].pc = "a_save"
                   /\ calls'[p].pc = "done"
                   /\ calls'[p].result = "ok"
                   /\ DOMAIN saved' = DOMAIN saved \cup {calls[p].args}
                   /\ \A k \in DOMAIN saved \ {calls[p].args} :
                          saved'[k] = saved[k]
                   /\ \E pt \in ports \ calls[p].pre.ports :
                          pt.name = saved'[calls[p].args].Vhostname
             /\ ( calls'[p].pc = "done" /\ calls'[p].result # "ok" )
                => /\ saved' = saved
                   /\ DOMAIN saved = calls[p].pre.records ]_vars

\* C16 witness: an AddOnHost has returned success with its record in the
\* store, the port of the recorded name existing; the MAC query had failed
C16_Witness ==
    \E p \in Procs :
        /\ Done(p, "AddOnHost")
        /\ calls[p].result = "ok"
        /\ calls[p].failed = "getVhostPortMac"
        /\ HasConfig(calls[p].args)
        /\ \E pt \in ports \ calls[p].pre.ports :
               pt.name = saved[calls[p].args].Vhostname

\* C17: DelFromHost never fails on removing a socket directory that holds
\* files of other attachments (it removes the directory only when the
\* directory is empty after the attachment's files were removed), whenever an
\* AddOnHost of another attachment created those files.
C17_DirRemovedOnlyWhenEmpty ==
    \A p \in Procs :
        Done(p, "DelFromHost") => calls[p].result # "NotEmpty"

\* C18: AddOnHost and DelFromHost end by returning success or an error
\* value, for every request and identity, a ContainerID shorter than 12
\* characters included: neither ends in a run-time panic.
C18_NoAbnormalTermination ==
    \A p \in Procs :
        calls[p].op \in {"AddOnHost", "DelFromHost"}
        => calls[p].result # "panic"

\* value of a hexadecimal digit, and of the i-th "xx" octet of a MAC string
HexVal(ch) == (CHOOSE i \in 1..16 : HexDigits[i] = ch) - 1

Octet(m, i) == 16 * HexVal(m[3 * i - 2]) + HexVal(m[3 * i - 1])

\* C19: for every value 0..255 of the first random byte, the first octet of
\* the MAC address generateRandomMacAddress formats has the
\* locally-administered bit (0x02) set and the multicast bit (0x01) clear,
\* and the other five octets are the random bytes unchanged.
C19_MacLocalUnicast ==
    ( macgen.out # NoMac.out /\ macgen.readOk )
    => /\ Len(macgen.out) = 17
       /\ \A i \in 1..5 : macgen.out[3 * i] = ":"
       /\ (Octet(macgen.out, 1) \div 2) % 2 = 1
       /\ Octet(macgen.out, 1) % 2 = 0
       /\ \A i \in 2..6 : Octet(macgen.out, i) = macgen.buf[i]

\* C19 witness: a MAC address was generated from a first byte with the
\* multicast bit set and the locally-administered bit clear
C19_Witness ==
    /\ macgen.out # NoMac.out
    /\ macgen.readOk
    /\ macgen.buf[1] = 253
    /\ Octet(macgen.out, 1) = 254

\* C20: DelFromHost for one attachment never removes the socket file of a
\* different attachment that has a saved record, also when the reference
\* string of the one is a prefix of the other's (interfaces e1 and e10 of one
\* container).
C20_DelKeepsOtherSockets ==
    \A p \in Procs :
        calls[p].op = "DelFromHost"
        => \A k \in DOMAIN saved :
               k # calls[p].args => saved[k].Vhostname \notin calls[p].removed

====
